---- MODULE Spec2Model ----
(***************************************************************************)
(* Skill Vector Store of devindex-adk: the process-wide skill vocabulary   *)
(* (database/vector_utils.py), the merge of skill maps, and the            *)
(* read-merge-write upsert of database/db.py as driven by                  *)
(* utils/db_utils.py.                                                      *)
(*                                                                         *)
(* Representation.  A skill map (a Python dict str -> int) is a function   *)
(* whose domain is its key set.  A vector entry float(score) / 100.0 is    *)
(* represented by the integer number of hundredths it was computed from.   *)
(* A missing value (None, key not in dict) is NoSlot / NoVector / NoRow.   *)
(***************************************************************************)
EXTENDS Integers, Sequences, FiniteSets, TLC

\* ------------------------------------------------------------------ bounds

\* max_dimensions, the vocabulary bound every call of one run is made with.
MaxDimensions == 2

\* Skill names, listed in the order Python's sorted() gives them.
NameOrder == <<"a", "b", "c", "d">>

Names == {NameOrder[i] : i \in 1..Len(NameOrder)}

\* Scores that occur in the inputs (integers of the range 0..100).
Scores == {0, 40, 70}

NoSlot == -1

NoVector == <<>>

\* Every skill map over Names and Scores.
AllMaps == UNION {[D -> Scores] : D \in SUBSET Names}

Max(x, y) == IF x >= y THEN x ELSE y

\* Position of a name in sorted order.
Rank(n) == CHOOSE i \in 1..Len(NameOrder) : NameOrder[i] = n

\* Mutant: the names are listed in descending order.
SortedDescending(S) ==
    LET idx == {Rank(n) : n \in S}
        nth[k \in 1..Cardinality(S)] ==
            CHOOSE i \in idx : Cardinality({j \in idx : j > i}) = k - 1
    IN [k \in 1..Cardinality(S) |-> NameOrder[nth[k]]]

\* sorted(S) for a set of names S.
Sorted(S) ==
    LET idx == {Rank(n) : n \in S}
        nth[k \in 1..Cardinality(S)] ==
            CHOOSE i \in idx : Cardinality({j \in idx : j < i}) = k - 1
    IN [k \in 1..Cardinality(S) |-> NameOrder[nth[k]]]

\* All orders in which the names of S can be listed (dict insertion orders).
Perms(S) ==
    {p \in [1..Cardinality(S) -> S] : \A i, j \in 1..Cardinality(S) : i # j => p[i] # p[j]}

\* ----------------------------------------------------- vocabulary registry

\* The dict _skill_vocabulary as a function Names -> slot, NoSlot = absent.
EmptyVocabulary == [n \in Names |-> NoSlot]

\* The keys of the dict.
VocabKeys(vocab) == {n \in Names : vocab[n] # NoSlot}

\* len(_skill_vocabulary)
VocabLen(vocab) == Cardinality(VocabKeys(vocab))

\* Mutant: the capacity test lets one name more in.
get_or_create_one_more(vocab, skill_name, max_dimensions) ==
    IF vocab[skill_name] = NoSlot
    THEN IF VocabLen(vocab) > max_dimensions
         THEN [raised |-> TRUE, vocab |-> vocab, ret |-> NoSlot]
         ELSE [raised |-> FALSE,
               vocab |-> [vocab EXCEPT ![skill_name] = VocabLen(vocab)],
               ret |-> VocabLen(vocab)]
    ELSE [raised |-> FALSE, vocab |-> vocab, ret |-> vocab[skill_name]]

\* Mutant: a name already registered is not looked up but given the next
\* index again.
get_or_create_no_lookup(vocab, skill_name, max_dimensions) ==
    IF VocabLen(vocab) >= max_dimensions
    THEN [raised |-> TRUE, vocab |-> vocab, ret |-> NoSlot]
    ELSE [raised |-> FALSE,
          vocab |-> [vocab EXCEPT ![skill_name] = VocabLen(vocab)],
          ret |-> VocabLen(vocab)]

\* Mutant: on a full registry the new name takes index 0 from its holder.
get_or_create_evict(vocab, skill_name, max_dimensions) ==
    IF vocab[skill_name] = NoSlot
    THEN IF VocabLen(vocab) >= max_dimensions
         THEN [raised |-> FALSE,
               vocab |-> [n \in Names |-> IF n = skill_name THEN 0
                                         ELSE IF vocab[n] = 0 THEN NoSlot
                                         ELSE vocab[n]],
               ret |-> 0]
         ELSE [raised |-> FALSE,
               vocab |-> [vocab EXCEPT ![skill_name] = VocabLen(vocab)],
               ret |-> VocabLen(vocab)]
    ELSE [raised |-> FALSE, vocab |-> vocab, ret |-> vocab[skill_name]]

\* get_or_create_skill_index: the dict after the call, the returned index,
\* and whether ValueError was raised.
get_or_create_skill_index(vocab, skill_name, max_dimensions) ==
    IF vocab[skill_name] = NoSlot
    THEN IF VocabLen(vocab) >= max_dimensions
         THEN [raised |-> TRUE, vocab |-> vocab, ret |-> NoSlot]
         ELSE [raised |-> FALSE,
               vocab |-> [vocab EXCEPT ![skill_name] = VocabLen(vocab)],
               ret |-> VocabLen(vocab)]
    ELSE [raised |-> FALSE, vocab |-> vocab, ret |-> vocab[skill_name]]

\* load_vocabulary_from_skills: get_or_create_skill_index for each key in the
\* dict's iteration order; the first ValueError ends the loop, the entries
\* made before it stay.
RECURSIVE load_vocabulary_from_skills(_, _, _)
load_vocabulary_from_skills(vocab, order, max_dimensions) ==
    IF order = <<>>
    THEN [raised |-> FALSE, vocab |-> vocab]
    ELSE LET r == get_or_create_skill_index(vocab, Head(order), max_dimensions)
         IN IF r.raised
            THEN [raised |-> TRUE, vocab |-> r.vocab]
            ELSE load_vocabulary_from_skills(r.vocab, Tail(order), max_dimensions)

\* The second loop of skills_to_vector: vector[idx] = score / 100 for every
\* key in iteration order whose index is below max_dimensions.
RECURSIVE FillVector(_, _, _, _, _)
FillVector(vector, vocab, skills, order, max_dimensions) ==
    IF order = <<>>
    THEN vector
    ELSE LET n == Head(order)
             idx == vocab[n]
             v == IF idx # NoSlot /\ idx < max_dimensions
                  THEN [vector EXCEPT ![idx + 1] = skills[n]]
                  ELSE vector
         IN FillVector(v, vocab, skills, Tail(order), max_dimensions)

\* skills_to_vector(skills, max_dimensions), the dict iterating in `order`.
skills_to_vector(vocab, skills, order, max_dimensions) ==
    LET l == load_vocabulary_from_skills(vocab, order, max_dimensions)
    IN IF l.raised
       THEN [raised |-> TRUE, vocab |-> l.vocab, vector |-> NoVector]
       ELSE [raised |-> FALSE, vocab |-> l.vocab,
             vector |-> FillVector([i \in 1..max_dimensions |-> 0],
                                   l.vocab, skills, order, max_dimensions)]

\* The loop of build_vocabulary_from_db over sorted_skills.
RECURSIVE BuildLoop(_, _, _)
BuildLoop(vocab, sorted_skills, max_dimensions) ==
    IF sorted_skills = <<>>
    THEN vocab
    ELSE LET v == IF VocabLen(vocab) < max_dimensions
                  THEN [vocab EXCEPT ![Head(sorted_skills)] = VocabLen(vocab)]
                  ELSE vocab
         IN BuildLoop(v, Tail(sorted_skills), max_dimensions)

\* build_vocabulary_from_db(skill_jsons, max_dimensions); skill_jsons is the
\* collection of skill maps read from storage.
build_vocabulary_from_db(vocab, skill_jsons, max_dimensions) ==
    LET all_skills == UNION {DOMAIN s : s \in skill_jsons}
    IN BuildLoop(vocab, Sorted(all_skills), max_dimensions)

\* int(value * 100) for the vector entry value = float(h) / 100.0 that
\* skills_to_vector stored for the score h (vector_utils.py:71, 97): in
\* IEEE-754 doubles the product falls just below h for these h of 0..200 and
\* int truncates it.
Denormalize(h) ==
    IF h \in {29, 57, 58, 113, 114, 115, 116} THEN h - 1 ELSE h

\* vector_to_skills(vector, vocabulary): the dicts it can return.  The
\* reversed dict keeps, for a slot that several names hold, the name the
\* registry dict iterates last; the registry function does not record that
\* order, so it is any of them.
vector_to_skills(vector, vocab) ==
    LET emitted == {idx \in 0..(Len(vector) - 1) :
                       /\ \E n \in Names : vocab[n] = idx
                       /\ vector[idx + 1] > 0}
        reversals == {rv \in [emitted -> Names] : \A idx \in emitted : vocab[rv[idx]] = idx}
    IN {[n \in {rv[idx] : idx \in emitted} |-> Denormalize(vector[vocab[n] + 1])] :
           rv \in reversals}

\* -------------------------------------------------------------- merge engine

\* Mutant: the incoming score replaces the stored one.
merge_overwrite(old_skills, new_skills) ==
    LET merged == [k \in DOMAIN old_skills \cup DOMAIN new_skills |->
                     IF k \in DOMAIN new_skills THEN new_skills[k] ELSE old_skills[k]]
    IN [ret |-> merged, old_skills |-> old_skills, new_skills |-> new_skills]

\* Mutant: a skill already stored keeps its stored score.
merge_keep_old(old_skills, new_skills) ==
    LET merged == [k \in DOMAIN old_skills \cup DOMAIN new_skills |->
                     IF k \in DOMAIN old_skills THEN old_skills[k] ELSE new_skills[k]]
    IN [ret |-> merged, old_skills |-> old_skills, new_skills |-> new_skills]

\* Mutant: scores of a skill in both dicts are added up.
merge_sum(old_skills, new_skills) ==
    LET merged == [k \in DOMAIN old_skills \cup DOMAIN new_skills |->
                     IF k \in DOMAIN new_skills
                     THEN IF k \in DOMAIN old_skills
                          THEN old_skills[k] + new_skills[k]
                          ELSE new_skills[k]
                     ELSE old_skills[k]]
    IN [ret |-> merged, old_skills |-> old_skills, new_skills |-> new_skills]

\* Mutant: merged is old_skills itself, not a copy of it.
merge_in_place(old_skills, new_skills) ==
    LET merged == [k \in DOMAIN old_skills \cup DOMAIN new_skills |->
                     IF k \in DOMAIN new_skills
                     THEN IF k \in DOMAIN old_skills
                          THEN Max(old_skills[k], new_skills[k])
                          ELSE new_skills[k]
                     ELSE old_skills[k]]
    IN [ret |-> merged, old_skills |-> merged, new_skills |-> new_skills]

\* merge_skill_vectors(old_skills, new_skills): the returned dict, and the two
\* argument dicts as they are after the call (merged is a copy of old_skills).
merge_skill_vectors(old_skills, new_skills) ==
    LET merged == [k \in DOMAIN old_skills \cup DOMAIN new_skills |->
                     IF k \in DOMAIN new_skills
                     THEN IF k \in DOMAIN old_skills
                          THEN Max(old_skills[k], new_skills[k])
                          ELSE new_skills[k]
                     ELSE old_skills[k]]
    IN [ret |-> merged, old_skills |-> old_skills, new_skills |-> new_skills]

\* ------------------------------------------------------------------- storage

\* Upper bound on the number of upserts started in one run.
MaxOps == 2

\* Concurrent callers of save_skill_vector_to_db in the one process.
Writers == {1, 2}

\* The (username, repo_name) pairs upserts are made for.
Keys == {<<"alice", "repo">>, <<"bob", "x">>, <<"bob", "y">>}

\* The skill maps upserts are made with.
UpsertMaps ==
    { [n \in {} |-> 0],
      "a" :> 0, "a" :> 40, "a" :> 70, "b" :> 70,
      "a" :> 70 @@ "b" :> 40,
      "b" :> 40 @@ "c" :> 40,
      "c" :> 70 @@ "d" :> 40,
      "a" :> 40 @@ "b" :> 40 @@ "c" :> 40 }

\* Upserts the data model rules out: an empty username, an empty repo_name,
\* a score above 100, a score below 0.
InvalidRequests ==
    { [username |-> "", repo_name |-> "repo", skills |-> "a" :> 70],
      [username |-> "alice", repo_name |-> "", skills |-> "a" :> 70],
      [username |-> "alice", repo_name |-> "repo", skills |-> "a" :> 150],
      [username |-> "alice", repo_name |-> "repo", skills |-> "b" :> (0 - 5)] }

\* Every (username, repo_name) an upsert is made with.
AllKeys == Keys \cup {<<r.username, r.repo_name>> : r \in InvalidRequests}

\* Classes of storage errors.
FailureKinds == {"transient", "permanent"}

VARIABLES
    vocabulary,  \* _skill_vocabulary (vector_utils.py:8)
    call,        \* the last direct call on the registry and its outcome
    table,       \* developer_skills: committed rows, a row's id is its position
    clock,       \* datetime.utcnow as a logical time
    pc,          \* where each caller is in save_skill_vector_to_db
    req,         \* the arguments of each caller's running upsert
    existing,    \* the row the caller's session loaded at lookup, or none
    local,       \* the caller's merged_skills and vector once computed
    pending,     \* the caller's flushed, uncommitted INSERT or UPDATE
    result,      \* what the caller's last upsert returned
    attempts,    \* how often the caller's upsert began the read-merge-write
    seen,        \* per (username, repo_name): <<>>, or <<per-skill maximum of the skill maps committed for it>> (history)
    ops,         \* number of upserts started
    old_skills,  \* merge_skill_vectors: the first argument dict
    new_skills,  \* merge_skill_vectors: the second argument dict
    merged,      \* merge_skill_vectors: <<returned dict>>, <<>> before the call
    query,       \* the last query a client made and the rows it returned
    log,         \* the get_or_create_skill_index calls of a client, in order, with their outcomes
    threads,     \* per thread: where it is inside get_or_create_skill_index, and its locals
    encoded      \* <<>>, or <<the skills and the vector of the skills_to_vector call a client kept>>

vars == <<vocabulary, call, table, clock, pc, req, existing, local, pending, result,
          attempts, seen, ops, old_skills, new_skills, merged, query, log,
          threads, encoded>>

storeVars ==
    <<table, clock, pc, req, existing, local, pending, result, attempts, seen, ops>>

mergeVars == <<old_skills, new_skills, merged>>

clientVars == <<query, log, threads, encoded>>

EmptyMap == [n \in {} |-> 0]

NoRequest == [username |-> "", repo_name |-> "", skills |-> EmptyMap]

\* No direct call yet: the name or skills or skill maps it was made with, and
\* the slot, vector or dict it returned.
NoCall ==
    [op |-> "none", name |-> "", skills |-> EmptyMap, jsons |-> {},
     raised |-> FALSE, ret |-> NoSlot, vector |-> NoVector, decoded |-> EmptyMap]

NoResult == [status |-> "none", kind |-> "", id |-> 0]

\* State after construction: empty registry, empty table, every caller idle.
InitStore ==
    /\ vocabulary = EmptyVocabulary
    /\ call = NoCall
    /\ table = <<>>
    /\ clock = 0
    /\ pc = [w \in Writers |-> "idle"]
    /\ req = [w \in Writers |-> NoRequest]
    /\ existing = [w \in Writers |-> <<>>]
    /\ local = [w \in Writers |-> <<>>]
    /\ pending = [w \in Writers |-> <<>>]
    /\ result = [w \in Writers |-> NoResult]
    /\ attempts = [w \in Writers |-> 0]
    /\ seen = [k \in AllKeys |-> <<>>]
    /\ ops = 0

InitMerge ==
    /\ old_skills = EmptyMap
    /\ new_skills = EmptyMap
    /\ merged = <<>>

\* No query yet: the arguments a query was made with, the set of ids of the
\* rows it returned and, for an ordered result, the ids in order.
NoQuery ==
    [op |-> "none", skill_filters |-> <<>>, limit |-> 0, repo_name |-> "",
     username |-> "", query_vector |-> <<>>, similarity_threshold |-> <<0, 1>>,
     ret |-> {}, rows |-> <<>>]

\* A thread that is not inside get_or_create_skill_index.
NoThread ==
    [pc |-> "idle", skill_name |-> "", index |-> NoSlot, raised |-> FALSE, ret |-> NoSlot]

InitClient ==
    /\ query = NoQuery
    /\ log = <<>>
    /\ threads = [t \in Writers |-> NoThread]
    /\ encoded = <<>>

Init == InitStore /\ InitMerge /\ InitClient

\* ------------------------------------------------- direct registry calls

\* get_or_create_skill_index(skill_name, MaxDimensions) called by a client:
\* its effect on the registry and its outcome.
EnsureSlotCall(skill_name) ==
    LET r == get_or_create_skill_index(vocabulary, skill_name, MaxDimensions)
    IN /\ vocabulary' = r.vocab
       /\ call' = [NoCall EXCEPT !.op = "ensureSlot", !.name = skill_name,
                                 !.raised = r.raised, !.ret = r.ret]
       /\ UNCHANGED <<storeVars, mergeVars, query, threads, encoded>>

\* The call among other direct calls.
EnsureSlot(skill_name) ==
    /\ EnsureSlotCall(skill_name)
    /\ log' = log

\* The call of a client that makes up to MaxDimensions + 2 of them and keeps
\* their names and outcomes.
EnsureSlotLogged(skill_name) ==
    /\ Len(log) < MaxDimensions + 2
    /\ EnsureSlotCall(skill_name)
    /\ log' = Append(log, [name |-> skill_name, raised |-> call'.raised,
                           ret |-> call'.ret])

\* skills_to_vector(skills, MaxDimensions): the registry and the outcome.
EncodeCall(skills, order) ==
    LET r == skills_to_vector(vocabulary, skills, order, MaxDimensions)
    IN /\ vocabulary' = r.vocab
       /\ call' = [NoCall EXCEPT !.op = "encode", !.skills = skills,
                                 !.raised = r.raised, !.vector = r.vector]
       /\ UNCHANGED <<storeVars, mergeVars, query, log, threads>>

\* The call among other direct calls.
Encode(skills, order) ==
    /\ EncodeCall(skills, order)
    /\ encoded' = encoded

\* The call of a client that may keep the map and the vector of a successful
\* encode, to compare it with a later one.
EncodeKept(skills, order) ==
    /\ EncodeCall(skills, order)
    /\ \/ encoded' = encoded
       \/ /\ ~call'.raised
          /\ encoded' = <<[skills |-> skills, vector |-> call'.vector]>>

\* build_vocabulary_from_db(skill_jsons, MaxDimensions) called by a client.
BulkLoad(skill_jsons) ==
    /\ vocabulary' = build_vocabulary_from_db(vocabulary, skill_jsons, MaxDimensions)
    /\ call' = [NoCall EXCEPT !.op = "bulkLoad", !.jsons = skill_jsons]
    /\ UNCHANGED <<storeVars, mergeVars, clientVars>>

NextVocab ==
    \/ \E n \in Names : EnsureSlot(n)
    \/ \E s \in UpsertMaps : \E order \in Perms(DOMAIN s) : Encode(s, order)
    \/ \E j \in {x \in SUBSET UpsertMaps : Cardinality(x) <= 2} : BulkLoad(j)

\* The registry under any sequence of direct calls.
SpecVocab == Init /\ [][NextVocab]_vars

NextStable ==
    \/ \E n \in Names : EnsureSlot(n)
    \/ \E s \in UpsertMaps : \E order \in Perms(DOMAIN s) : EncodeKept(s, order)
    \/ \E j \in {x \in SUBSET UpsertMaps : Cardinality(x) <= 1} : BulkLoad(j)

\* The registry under any sequence of direct calls of a client that compares
\* the vectors of its encodes.
SpecStable == Init /\ [][NextStable]_vars

NextEnsure == \E n \in Names : EnsureSlotLogged(n)

\* A client that starts on the empty registry and only calls
\* get_or_create_skill_index.
SpecEnsure == Init /\ [][NextEnsure]_vars

\* Threads of one process inside get_or_create_skill_index at the same time:
\* the interpreter can switch threads between the membership test, the
\* capacity test, the evaluation of len(_skill_vocabulary) and the store.

\* Thread t calls get_or_create_skill_index(skill_name, MaxDimensions).
ThreadCall(t, skill_name) ==
    /\ threads[t].pc = "idle"
    /\ threads' = [threads EXCEPT ![t] = [NoThread EXCEPT !.pc = "test",
                                                          !.skill_name = skill_name]]
    /\ UNCHANGED <<vocabulary, call, storeVars, mergeVars, query, log, encoded>>

\* if skill_name not in _skill_vocabulary (vector_utils.py:25)
ThreadTest(t) ==
    /\ threads[t].pc = "test"
    /\ threads' = [threads EXCEPT ![t].pc =
                     IF vocabulary[threads[t].skill_name] = NoSlot
                     THEN "capacity" ELSE "return"]
    /\ UNCHANGED <<vocabulary, call, storeVars, mergeVars, query, log, encoded>>

\* if len(_skill_vocabulary) >= max_dimensions: raise (vector_utils.py:26-27)
ThreadCapacity(t) ==
    /\ threads[t].pc = "capacity"
    /\ threads' = [threads EXCEPT ![t] =
                     IF VocabLen(vocabulary) >= MaxDimensions
                     THEN [@ EXCEPT !.pc = "idle", !.raised = TRUE]
                     ELSE [@ EXCEPT !.pc = "len"]]
    /\ UNCHANGED <<vocabulary, call, storeVars, mergeVars, query, log, encoded>>

\* The right-hand side len(_skill_vocabulary) is evaluated (vector_utils.py:28).
ThreadLen(t) ==
    /\ threads[t].pc = "len"
    /\ threads' = [threads EXCEPT ![t] =
                     [@ EXCEPT !.pc = "store", !.index = VocabLen(vocabulary)]]
    /\ UNCHANGED <<vocabulary, call, storeVars, mergeVars, query, log, encoded>>

\* _skill_vocabulary[skill_name] = <the value> (vector_utils.py:28)
ThreadStore(t) ==
    /\ threads[t].pc = "store"
    /\ vocabulary' = [vocabulary EXCEPT ![threads[t].skill_name] = threads[t].index]
    /\ threads' = [threads EXCEPT ![t].pc = "return"]
    /\ UNCHANGED <<call, storeVars, mergeVars, query, log, encoded>>

\* return _skill_vocabulary[skill_name] (vector_utils.py:30)
ThreadReturn(t) ==
    /\ threads[t].pc = "return"
    /\ threads' = [threads EXCEPT ![t] =
                     [@ EXCEPT !.pc = "idle", !.ret = vocabulary[threads[t].skill_name]]]
    /\ UNCHANGED <<vocabulary, call, storeVars, mergeVars, query, log, encoded>>

NextRace ==
    \E t \in Writers :
        \/ \E n \in Names : ThreadCall(t, n)
        \/ ThreadTest(t)
        \/ ThreadCapacity(t)
        \/ ThreadLen(t)
        \/ ThreadStore(t)
        \/ ThreadReturn(t)

\* Two threads calling get_or_create_skill_index on the shared registry.
SpecRace == Init /\ [][NextRace]_vars

\* vector_to_skills(vector) called by a client on the vector its
\* skills_to_vector call returned.
Decode ==
    /\ call.op = "encode"
    /\ ~call.raised
    /\ \E d \in vector_to_skills(call.vector, vocabulary) :
          call' = [call EXCEPT !.op = "decode", !.decoded = d]
    /\ UNCHANGED <<vocabulary, storeVars, mergeVars, clientVars>>

\* The dicts of one skill with an integer score of 0..100.
SingleSkillMaps == {n :> sc : n \in Names, sc \in 0..100}

NextCodec ==
    \/ \E n \in Names : EnsureSlot(n)
    \/ \E s \in SingleSkillMaps : \E order \in Perms(DOMAIN s) : Encode(s, order)
    \/ Decode

\* A client that encodes one-skill dicts and decodes the vectors again.
SpecCodec == Init /\ [][NextCodec]_vars

\* ------------------------------------------------------ merge as a call

\* merged = merge_skill_vectors(old_skills, new_skills)
MergeCall ==
    /\ Len(merged) = 0
    /\ LET r == merge_skill_vectors(old_skills, new_skills)
       IN /\ merged' = <<r.ret>>
          /\ old_skills' = r.old_skills
          /\ new_skills' = r.new_skills
    /\ UNCHANGED <<vocabulary, call, storeVars, clientVars>>

\* merge_skill_vectors(merged, new_skills): the result merged once more with
\* the same incoming dict.
MergeAgain ==
    /\ Len(merged) = 1
    /\ LET r == merge_skill_vectors(merged[1], new_skills)
       IN /\ merged' = <<r.old_skills, r.ret>>
          /\ new_skills' = r.new_skills
    /\ UNCHANGED <<old_skills, vocabulary, call, storeVars, clientVars>>

NextMerge == MergeCall \/ MergeAgain

\* Before the call: any two skill maps as the arguments.
InitMergeArgs ==
    /\ InitStore
    /\ InitClient
    /\ old_skills \in AllMaps
    /\ new_skills \in AllMaps
    /\ merged = <<>>

\* merge_skill_vectors on every pair of skill maps.
SpecMerge == InitMergeArgs /\ [][NextMerge]_vars

\* ------------------------------------------------------------------ upsert

\* Ids of the committed rows a query on (username, repo_name) matches.
Matches(username, repo_name) ==
    {i \in 1..Len(table) :
        table[i].username = username /\ table[i].repo_name = repo_name}

\* initialize_vocabulary reads every non-empty skill_json of the table.
StoredSkillJsons ==
    {table[i].skill_json : i \in 1..Len(table)} \ {EmptyMap}

\* dict.get(k, 0)
Get(m, k) == IF k \in DOMAIN m THEN m[k] ELSE 0

\* The per-skill maximum of two skill maps over the union of their keys.
UnionMax(A, B) ==
    [n \in DOMAIN A \cup DOMAIN B |-> Max(Get(A, n), Get(B, n))]

\* Mutant: a transient error starts the read-merge-write again, up to three
\* attempts.
RaiseOrRetry(w, kind) ==
    IF kind = "transient" /\ attempts'[w] < 3
    THEN /\ pc' = [pc EXCEPT ![w] = "lookup"]
         /\ pending' = [pending EXCEPT ![w] = <<>>]
         /\ existing' = existing
         /\ result' = result
    ELSE /\ pc' = [pc EXCEPT ![w] = "idle"]
         /\ pending' = [pending EXCEPT ![w] = <<>>]
         /\ existing' = existing
         /\ result' = [result EXCEPT ![w] =
                         [status |-> "failed", kind |-> kind, id |-> 0]]

\* Mutant: the failure of a first attempt, of either kind, starts the
\* read-merge-write once more.
RaiseAfterSecondAttempt(w, kind) ==
    IF attempts'[w] < 2
    THEN /\ pc' = [pc EXCEPT ![w] = "lookup"]
         /\ pending' = [pending EXCEPT ![w] = <<>>]
         /\ existing' = existing
         /\ result' = result
    ELSE /\ pc' = [pc EXCEPT ![w] = "idle"]
         /\ pending' = [pending EXCEPT ![w] = <<>>]
         /\ existing' = existing
         /\ result' = [result EXCEPT ![w] =
                         [status |-> "failed", kind |-> kind, id |-> 0]]

\* Mutant: a failure that is not transient is swallowed and the call returns
\* as if the row had been written.
RaiseSwallowPermanent(w, kind) ==
    /\ pc' = [pc EXCEPT ![w] = "idle"]
    /\ pending' = [pending EXCEPT ![w] = <<>>]
    /\ existing' = existing
    /\ result' = [result EXCEPT ![w] =
                    IF kind = "permanent"
                    THEN [status |-> "ok", kind |-> "", id |-> 0]
                    ELSE [status |-> "failed", kind |-> kind, id |-> 0]]

\* An exception leaves save_or_update_skill_vector: get_session rolls the
\* session back and re-raises (save_skill_vector_to_db catches it and
\* returns False).
Raise(w, kind) ==
    /\ pc' = [pc EXCEPT ![w] = "idle"]
    /\ pending' = [pending EXCEPT ![w] = <<>>]
    /\ existing' = existing
    /\ result' = [result EXCEPT ![w] = [status |-> "failed", kind |-> kind, id |-> 0]]

\* save_skill_vector_to_db(username, repo_name, skills) is called: an empty
\* skills dict returns False at once, anything else goes on to
\* initialize_vocabulary.
Start(w, username, repo_name, skills) ==
    /\ pc[w] = "idle"
    /\ ops < MaxOps
    /\ ops' = ops + 1
    /\ req' = [req EXCEPT ![w] =
                 [username |-> username, repo_name |-> repo_name, skills |-> skills]]
    /\ attempts' = [attempts EXCEPT ![w] = 0]
    /\ IF skills = EmptyMap
       THEN /\ result' = [result EXCEPT ![w] =
                            [status |-> "skipped", kind |-> "", id |-> 0]]
            /\ pc' = pc
       ELSE /\ result' = [result EXCEPT ![w] = NoResult]
            /\ pc' = [pc EXCEPT ![w] = "init_vocab"]
    /\ local' = [local EXCEPT ![w] = <<>>]
    /\ existing' = [existing EXCEPT ![w] = <<>>]
    /\ UNCHANGED <<vocabulary, call, table, clock, pending, seen, mergeVars, clientVars>>

\* DatabaseManager.save_or_update_skill_vector(username, repo_name, new_skills)
\* is called by a client itself: no test for an empty dict, no
\* initialize_vocabulary.
StartDirectWithin(w, username, repo_name, skills, budget) ==
    /\ pc[w] = "idle"
    /\ ops < budget
    /\ ops' = ops + 1
    /\ req' = [req EXCEPT ![w] =
                 [username |-> username, repo_name |-> repo_name, skills |-> skills]]
    /\ attempts' = [attempts EXCEPT ![w] = 0]
    /\ result' = [result EXCEPT ![w] = NoResult]
    /\ pc' = [pc EXCEPT ![w] = "lookup"]
    /\ local' = [local EXCEPT ![w] = <<>>]
    /\ existing' = [existing EXCEPT ![w] = <<>>]
    /\ UNCHANGED <<vocabulary, call, table, clock, pending, seen, mergeVars, clientVars>>

\* The call as one of the MaxOps upserts of a run.
StartDirect(w, username, repo_name, skills) ==
    StartDirectWithin(w, username, repo_name, skills, MaxOps)

\* db.initialize_vocabulary(): build_vocabulary_from_db on the stored skill
\* maps; an exception of the query is logged and the save goes on.
InitializeVocabulary(w) ==
    /\ pc[w] = "init_vocab"
    /\ \/ vocabulary' =
            build_vocabulary_from_db(vocabulary, StoredSkillJsons, MaxDimensions)
       \/ vocabulary' = vocabulary
    /\ pc' = [pc EXCEPT ![w] = "lookup"]
    /\ UNCHANGED <<call, table, clock, req, existing, local, pending, result,
                   attempts, seen, ops, mergeVars, clientVars>>

\* The session opens and the query for (username, repo_name) runs: first()
\* gives one of the matching rows or None; or the query raises.
Lookup(w) ==
    /\ pc[w] = "lookup"
    /\ attempts' = [attempts EXCEPT ![w] = @ + 1]
    /\ LET m == Matches(req[w].username, req[w].repo_name)
       IN \/ /\ m = {}
             /\ existing' = [existing EXCEPT ![w] = <<>>]
             /\ pc' = [pc EXCEPT ![w] = "write"]
             /\ UNCHANGED <<pending, result>>
          \/ \E i \in m :
                /\ existing' = [existing EXCEPT ![w] = <<[id |-> i, row |-> table[i]]>>]
                /\ pc' = [pc EXCEPT ![w] = "write"]
                /\ UNCHANGED <<pending, result>>
          \/ \E kind \in FailureKinds : Raise(w, kind)
    /\ UNCHANGED <<vocabulary, call, table, clock, req, local, seen, ops, mergeVars, clientVars>>

\* merged_skills of save_or_update_skill_vector (db.py:247-255).
MergedSkills(snap, new) ==
    IF snap # <<>> /\ snap[1].row.skill_json # EmptyMap
    THEN merge_skill_vectors(snap[1].row.skill_json, new).ret
    ELSE new

\* The orders merged_skills can iterate in: the stored keys in the order the
\* JSONB column returns them, then the new keys in the caller's order.
MergedOrders(snap, new) ==
    IF snap # <<>> /\ snap[1].row.skill_json # EmptyMap
    THEN LET old == snap[1].row.skill_json
         IN {Sorted(DOMAIN old) \o p : p \in Perms(DOMAIN new \ DOMAIN old)}
    ELSE Perms(DOMAIN new)

\* Mutant: a row is inserted whether or not one was found.
StatementAlwaysInsert(snap, r, merged_skills, vector, now) ==
    <<[kind |-> "insert", id |-> 0,
       row |-> [username |-> r.username, repo_name |-> r.repo_name,
                skill_json |-> merged_skills, skill_vector |-> vector,
                created_at |-> now, updated_at |-> now]]>>

\* The statement the flush sends for the session's change (db.py:267-285): an
\* UPDATE of the columns whose value changed, with updated_at, or an INSERT.
\* No column changed: no statement.
Statement(snap, r, merged_skills, vector, now) ==
    IF snap # <<>>
    THEN LET setJson == merged_skills # snap[1].row.skill_json
             setVector == vector # NoVector
         IN IF setJson \/ setVector
            THEN <<[kind |-> "update", id |-> snap[1].id,
                    setJson |-> setJson, setVector |-> setVector,
                    skill_json |-> merged_skills, skill_vector |-> vector,
                    now |-> now]>>
            ELSE <<>>
    ELSE <<[kind |-> "insert", id |-> 0,
            row |-> [username |-> r.username, repo_name |-> r.repo_name,
                     skill_json |-> merged_skills, skill_vector |-> vector,
                     created_at |-> now, updated_at |-> now]]>>

\* An UPDATE waits for the row lock while another session's uncommitted
\* UPDATE holds it.
RowLocked(w, stmt) ==
    /\ stmt # <<>>
    /\ stmt[1].kind = "update"
    /\ \E v \in Writers \ {w} :
          /\ pending[v] # <<>>
          /\ pending[v][1].kind = "update"
          /\ pending[v][1].id = stmt[1].id

\* Mutant: the ValueError of the encode is not caught.
TryVectorUncaught(enc) == [raised |-> enc.raised, vector |-> enc.vector]

\* The try/except around skills_to_vector (db.py:259-265): a ValueError of
\* the encode is logged, vector stays None and the save goes on.
TryVector(enc) ==
    [raised |-> FALSE, vector |-> IF enc.raised THEN NoVector ELSE enc.vector]

\* The default of max_dimensions in save_or_update_skill_vector (db.py:214).
SaveDefaultMaxDimensions == 100

\* The dimension declared for the skill_vector column (models.py:47).
VectorColumnDimensions == 200

\* Merge, encode with max_dimensions, change the session and flush
\* (db.py:247-289).  The encode changes the registry also when it raises or
\* the flush fails.
WriteWithin(w, max_dimensions) ==
    /\ pc[w] = "write"
    /\ UNCHANGED <<call, table, req, attempts, seen, ops, mergeVars, clientVars>>
    /\ LET snap == existing[w]
           merged_skills == MergedSkills(snap, req[w].skills)
       IN \E order \in MergedOrders(snap, req[w].skills) :
            LET enc == skills_to_vector(vocabulary, merged_skills, order, max_dimensions)
                try == TryVector(enc)
                stmt == Statement(snap, req[w], merged_skills, try.vector, clock + 1)
            IN /\ vocabulary' = enc.vocab
               /\ clock' = clock + 1
               /\ local' = [local EXCEPT ![w] =
                              <<[merged_skills |-> merged_skills, vector |-> try.vector]>>]
               /\ IF try.raised
                  THEN Raise(w, "capacity")
                  ELSE \/ /\ ~RowLocked(w, stmt)
                          /\ pending' = [pending EXCEPT ![w] = stmt]
                          /\ pc' = [pc EXCEPT ![w] = "commit"]
                          /\ UNCHANGED <<existing, result>>
                       \/ \E kind \in FailureKinds : Raise(w, kind)

\* Mutant: an UPDATE also resets created_at.
ApplyResetsCreatedAt(tbl, stmt) ==
    IF stmt = <<>>
    THEN tbl
    ELSE IF stmt[1].kind = "insert"
         THEN Append(tbl, stmt[1].row)
         ELSE [tbl EXCEPT ![stmt[1].id] =
                 [@ EXCEPT !.skill_json = stmt[1].skill_json,
                           !.created_at = stmt[1].now,
                           !.updated_at = stmt[1].now]]

\* The callers of the model pass the bound MaxDimensions as max_dimensions.
Write(w) == WriteWithin(w, MaxDimensions)

\* The table after a statement is committed.
Apply(tbl, stmt) ==
    IF stmt = <<>>
    THEN tbl
    ELSE IF stmt[1].kind = "insert"
         THEN Append(tbl, stmt[1].row)
         ELSE [tbl EXCEPT ![stmt[1].id] =
                 [@ EXCEPT !.skill_json = IF stmt[1].setJson
                                          THEN stmt[1].skill_json ELSE @,
                           !.skill_vector = IF stmt[1].setVector
                                            THEN stmt[1].skill_vector ELSE @,
                           !.updated_at = stmt[1].now]]

\* The id of the row save_or_update_skill_vector returns.
ReturnedId(tbl, snap) ==
    IF snap # <<>> THEN snap[1].id ELSE Len(tbl) + 1

\* Mutant: a commit that raises has persisted the flushed statement.
CommitPersistsOnFailure(w) ==
    /\ pc[w] = "commit"
    /\ UNCHANGED <<vocabulary, call, clock, req, local, attempts, ops, mergeVars, clientVars>>
    /\ \/ /\ table' = Apply(table, pending[w])
          /\ result' = [result EXCEPT ![w] =
                          [status |-> "ok", kind |-> "",
                           id |-> ReturnedId(table, existing[w])]]
          /\ seen' = [seen EXCEPT ![<<req[w].username, req[w].repo_name>>] =
                        <<UnionMax(IF @ = <<>> THEN EmptyMap ELSE @[1], req[w].skills)>>]
          /\ pending' = [pending EXCEPT ![w] = <<>>]
          /\ existing' = existing
          /\ pc' = [pc EXCEPT ![w] = "idle"]
       \/ /\ \E kind \in FailureKinds : Raise(w, kind)
          /\ table' = Apply(table, pending[w])
          /\ seen' = seen

\* get_session commits on leaving the with block (db.py:202); the instance is
\* returned and save_skill_vector_to_db reports success.  Or the commit raises.
Commit(w) ==
    /\ pc[w] = "commit"
    /\ UNCHANGED <<vocabulary, call, clock, req, local, attempts, ops, mergeVars, clientVars>>
    /\ \/ /\ table' = Apply(table, pending[w])
          /\ result' = [result EXCEPT ![w] =
                          [status |-> "ok", kind |-> "",
                           id |-> ReturnedId(table, existing[w])]]
          /\ seen' = [seen EXCEPT ![<<req[w].username, req[w].repo_name>>] =
                        <<UnionMax(IF @ = <<>> THEN EmptyMap ELSE @[1], req[w].skills)>>]
          /\ pending' = [pending EXCEPT ![w] = <<>>]
          /\ existing' = existing
          /\ pc' = [pc EXCEPT ![w] = "idle"]
       \/ /\ \E kind \in FailureKinds : Raise(w, kind)
          /\ UNCHANGED <<table, seen>>

\* One step of one caller.
Step(w) ==
    \/ \E k \in Keys : \E s \in UpsertMaps : Start(w, k[1], k[2], s)
    \/ \E k \in Keys : \E s \in UpsertMaps : StartDirect(w, k[1], k[2], s)
    \/ InitializeVocabulary(w)
    \/ Lookup(w)
    \/ Write(w)
    \/ Commit(w)

Next == \E w \in Writers : Step(w)

\* Callers running save_skill_vector_to_db concurrently in one process.
Spec == Init /\ [][Next]_vars

\* One caller: upserts one after the other, none overlapping.
NextSeq == Step(1)

SpecSeq == Init /\ [][NextSeq]_vars

\* The skill maps of the upserts made to one profile at the same time.
SameKeyMaps == { "a" :> 40, "a" :> 70, "b" :> 70 }

\* Two callers of save_or_update_skill_vector that upsert (alice, repo) only,
\* MaxOps + 1 times in all: once to store the profile, then at the same time.
NextSameKey ==
    \E w \in Writers :
        \/ \E s \in SameKeyMaps : StartDirectWithin(w, "alice", "repo", s, MaxOps + 1)
        \/ Lookup(w)
        \/ Write(w)
        \/ Commit(w)

SpecSameKey == Init /\ [][NextSameKey]_vars

\* One caller, started with the upserts the data model rules out.
NextInvalid ==
    \/ \E r \in InvalidRequests : Start(1, r.username, r.repo_name, r.skills)
    \/ \E r \in InvalidRequests : StartDirect(1, r.username, r.repo_name, r.skills)
    \/ InitializeVocabulary(1)
    \/ Lookup(1)
    \/ Write(1)
    \/ Commit(1)

SpecInvalid == Init /\ [][NextInvalid]_vars

\* ================================================================= queries

\* The filter dicts searches are made with, as the (skill, minimum) items in
\* the dict's order.
SearchFilters ==
    { <<<<"a", 0>>>>, <<<<"a", 40>>>>, <<<<"b", 0>>>>,
      <<<<"a", 70>>, <<"b", 40>>>>,
      <<<<"b", 40>>, <<"a", 70>>>> }

\* The repo_name arguments of searches; "" stands for None as well, the code
\* tests the argument's truth.
RepoFilters == {"", "x"}

\* The limit arguments of searches: one row, or more rows than are stored.
Limits == {1, MaxOps + 1}

\* The WHERE clause of search_by_skills for one row (db.py:365-374).  Every
\* filter's text clause binds the same parameter name, min_score, so the
\* statement is executed with the value bound last for all of them;
\* skill_json->>'k' is NULL for a missing key and the comparison is then not
\* true.
RowSelected(row, skill_filters, repo_name) ==
    /\ \A i \in 1..Len(skill_filters) :
          LET skill_name == skill_filters[i][1]
              min_score == skill_filters[Len(skill_filters)][2]
          IN /\ skill_name \in DOMAIN row.skill_json
             /\ row.skill_json[skill_name] >= min_score
    /\ repo_name # "" => row.repo_name = repo_name

\* search_by_skills(skill_filters, limit, repo_name): the results it can
\* return, each the set of ids of the returned rows.  Without ORDER BY the
\* LIMIT keeps any limit of the selected rows.
search_by_skills(tbl, skill_filters, limit, repo_name) ==
    LET selected == {i \in 1..Len(tbl) : RowSelected(tbl[i], skill_filters, repo_name)}
    IN IF Cardinality(selected) <= limit
       THEN {selected}
       ELSE {S \in SUBSET selected : Cardinality(S) = limit}

\* A client between two upserts calls search_by_skills on the committed rows.
Search(skill_filters, limit, repo_name) ==
    /\ pc[1] = "idle"
    /\ \E ret \in search_by_skills(table, skill_filters, limit, repo_name) :
          query' = [NoQuery EXCEPT !.op = "search_by_skills",
                                   !.skill_filters = skill_filters,
                                   !.limit = limit, !.repo_name = repo_name,
                                   !.ret = ret]
    /\ UNCHANGED <<vocabulary, call, storeVars, mergeVars, log, threads, encoded>>

\* One client that upserts through the DatabaseManager and queries.
NextQuery ==
    \/ \E k \in Keys : \E s \in UpsertMaps : StartDirect(1, k[1], k[2], s)
    \/ Lookup(1)
    \/ Write(1)
    \/ Commit(1)
    \/ \E f \in SearchFilters : \E l \in Limits : \E r \in RepoFilters : Search(f, l, r)

SpecQuery == Init /\ [][NextQuery]_vars

\* The upserts of the client that also reads: three profiles, two of them
\* of one username; the third skill map does not fit a registry of two slots.
DirectRequests ==
    { [username |-> k[1], repo_name |-> k[2], skills |-> sk] :
        k \in {<<"alice", "repo">>, <<"alice", "x">>, <<"bob", "x">>},
        sk \in { "a" :> 4, "a" :> 3 @@ "b" :> 4, "a" :> 3 @@ "b" :> 3 @@ "c" :> 3 } }

\* One client that calls save_or_update_skill_vector, up to MaxOps + 1 times.
NextDirect ==
    \/ \E r \in DirectRequests :
          StartDirectWithin(1, r.username, r.repo_name, r.skills, MaxOps + 1)
    \/ Lookup(1)
    \/ Write(1)
    \/ Commit(1)

SpecDirect == Init /\ [][NextDirect]_vars

\* One client that calls save_or_update_skill_vector(username, repo_name,
\* new_skills), leaving max_dimensions at its default, as
\* save_skill_vector_to_db does (db_utils.py:60-64).
NextDefault ==
    \/ \E r \in DirectRequests : StartDirect(1, r.username, r.repo_name, r.skills)
    \/ Lookup(1)
    \/ WriteWithin(1, SaveDefaultMaxDimensions)
    \/ Commit(1)

SpecDefault == Init /\ [][NextDefault]_vars

\* Mutant: the repo_name argument is not used.
get_skill_vector_any_repo(tbl, username, repo_name) ==
    LET selected == {i \in 1..Len(tbl) : tbl[i].username = username}
    IN IF selected = {} THEN {{}} ELSE {{i} : i \in selected}

\* get_skill_vector(username, repo_name): the results it can give, {} for
\* None or {id} for the row first() gave among those the filters select
\* (db.py:312-324); repo_name "" stands for None as well.
get_skill_vector(tbl, username, repo_name) ==
    LET selected == {i \in 1..Len(tbl) :
                        /\ tbl[i].username = username
                        /\ repo_name # "" => tbl[i].repo_name = repo_name}
    IN IF selected = {} THEN {{}} ELSE {{i} : i \in selected}

\* A client between two upserts calls get_skill_vector.
GetProfile(username, repo_name) ==
    /\ pc[1] = "idle"
    /\ \E ret \in get_skill_vector(table, username, repo_name) :
          query' = [NoQuery EXCEPT !.op = "get_skill_vector", !.username = username,
                                   !.repo_name = repo_name, !.ret = ret]
    /\ UNCHANGED <<vocabulary, call, storeVars, mergeVars, log, threads, encoded>>

\* Inner product and squared length of vectors.
RECURSIVE Dot(_, _)
Dot(u, v) ==
    IF u = <<>> \/ v = <<>> THEN 0 ELSE Head(u) * Head(v) + Dot(Tail(u), Tail(v))

Norm2(v) == Dot(v, v)

\* pgvector's cosine distance is NaN when either vector has length 0.
DistanceIsNaN(q, v) == Norm2(q) = 0 \/ Norm2(v) = 0

\* ORDER BY skill_vector <=> query_vector puts u strictly before v: the
\* cosine of u is the greater one (no entry is negative, so the cosines are
\* compared by their squares); NaN sorts after every number.
Closer(q, u, v) ==
    /\ ~DistanceIsNaN(q, u)
    /\ \/ DistanceIsNaN(q, v)
       \/ Dot(q, u) * Dot(q, u) * Norm2(v) > Dot(q, v) * Dot(q, v) * Norm2(u)

\* Mutant: rows without a vector are not filtered out, and sort last.
search_without_vector_filter(tbl, query_vector, limit, similarity_threshold) ==
    LET all == 1..Len(tbl)
        k == IF Cardinality(all) <= limit THEN Cardinality(all) ELSE limit
    IN {rows \in [1..k -> all] :
          /\ \A p, r \in 1..k : p # r => rows[p] # rows[r]
          /\ \A p, r \in 1..k :
                p < r => ~Closer(query_vector, tbl[rows[r]].skill_vector,
                                              tbl[rows[p]].skill_vector)
          /\ \A i \in all :
                (\A p \in 1..k : rows[p] # i) =>
                    \A p \in 1..k : ~Closer(query_vector, tbl[i].skill_vector,
                                                          tbl[rows[p]].skill_vector)}

\* search_by_vector_similarity(query_vector, limit, similarity_threshold):
\* the row id lists it can return (db.py:398-408): rows with a vector, by
\* ascending cosine distance, cut at limit.  similarity_threshold is not
\* used by the query.
search_by_vector_similarity(tbl, query_vector, limit, similarity_threshold) ==
    LET with_vector == {i \in 1..Len(tbl) : tbl[i].skill_vector # NoVector}
        k == IF Cardinality(with_vector) <= limit THEN Cardinality(with_vector) ELSE limit
    IN {rows \in [1..k -> with_vector] :
          /\ \A p, r \in 1..k : p # r => rows[p] # rows[r]
          /\ \A p, r \in 1..k :
                p < r => ~Closer(query_vector, tbl[rows[r]].skill_vector,
                                              tbl[rows[p]].skill_vector)
          /\ \A i \in with_vector :
                (\A p \in 1..k : rows[p] # i) =>
                    \A p \in 1..k : ~Closer(query_vector, tbl[i].skill_vector,
                                                          tbl[rows[p]].skill_vector)}

\* The query vectors of similarity searches, entries in hundredths.
QueryVectors == [1..MaxDimensions -> {0, 100}]

\* The similarity_threshold arguments, as <<numerator, denominator>>: the
\* default 0.5, and 0.9.
Thresholds == {<<1, 2>>, <<9, 10>>}

\* A client between two upserts calls search_by_vector_similarity.
SimilaritySearch(query_vector, limit, similarity_threshold) ==
    /\ pc[1] = "idle"
    /\ \E rows \in search_by_vector_similarity(table, query_vector, limit,
                                               similarity_threshold) :
          query' = [NoQuery EXCEPT !.op = "search_by_vector_similarity",
                                   !.query_vector = query_vector,
                                   !.limit = limit,
                                   !.similarity_threshold = similarity_threshold,
                                   !.rows = rows,
                                   !.ret = {rows[p] : p \in DOMAIN rows}]
    /\ UNCHANGED <<vocabulary, call, storeVars, mergeVars, log, threads, encoded>>

\* One client that makes its MaxOps upserts through the DatabaseManager and
\* then reads once.
NextRead ==
    \/ \E r \in DirectRequests : StartDirect(1, r.username, r.repo_name, r.skills)
    \/ Lookup(1)
    \/ Write(1)
    \/ Commit(1)
    \/ /\ ops = MaxOps
       /\ query = NoQuery
       /\ \E u \in {"alice", "bob", "carol"} : \E r \in {"", "x", "repo"} : GetProfile(u, r)
    \/ /\ ops = MaxOps
       /\ query = NoQuery
       /\ \E q \in QueryVectors : \E l \in Limits : \E t \in Thresholds :
             SimilaritySearch(q, l, t)

SpecRead == Init /\ [][NextRead]_vars

\* ================================================================== claims

\* The row a finished upsert of caller w returned.
ReturnedRow(w) == table[result[w].id]

\* The (username, repo_name) of caller w's upsert.
ReqKey(w) == <<req[w].username, req[w].repo_name>>

\* C1: whatever sequence of ensureSlot, encode and bulkLoad calls is made with
\* one max_dimensions, no two distinct skill names hold the same slot and
\* every assigned slot is in [0, max_dimensions).
C1_RegistryInjectiveInRange ==
    /\ \A n \in VocabKeys(vocabulary) :
          vocabulary[n] >= 0 /\ vocabulary[n] < MaxDimensions
    /\ \A n1, n2 \in VocabKeys(vocabulary) :
          n1 # n2 => vocabulary[n1] # vocabulary[n2]

\* C2: a skill name that has a slot keeps exactly that slot across every
\* later registry operation, initialize_vocabulary before a save included.
C2_SlotsAreStable ==
    [][\A n \in Names : vocabulary[n] # NoSlot => vocabulary'[n] = vocabulary[n]]_vars

\* C3: at most one stored profile exists per (username, repo_name), whatever
\* the interleaving of concurrent upserts for the pair.
C3_AtMostOneProfilePerKey ==
    \A k \in Keys : Cardinality(Matches(k[1], k[2])) <= 1

\* C4: after sequential successful upserts exactly one profile exists for every
\* pair upserted at least once and none for the others, and every successful
\* upsert returns the one row of its pair.
C4_OneProfilePerUpsertedKey ==
    /\ \A k \in Keys :
          Cardinality(Matches(k[1], k[2])) = IF seen[k] = <<>> THEN 0 ELSE 1
    /\ \A w \in Writers :
          result[w].status = "ok" =>
              result[w].id \in Matches(req[w].username, req[w].repo_name)

\* C4 witness: a pair's single row was inserted by one upsert and updated by a
\* later one.
C4_Witness ==
    \E k \in Keys : \E i \in Matches(k[1], k[2]) :
        /\ Cardinality(Matches(k[1], k[2])) = 1
        /\ table[i].updated_at > table[i].created_at

\* C5: after sequential successful upserts for a pair, the stored skills map has
\* exactly the union of the incoming skill names as keys and for each name the
\* highest score given for it.
C5_StoredIsUnionMax ==
    \A k \in Keys :
        seen[k] # <<>> =>
            \A i \in Matches(k[1], k[2]) : table[i].skill_json = seen[k][1]

\* C5 witness: {a: 40} and {b: 70} were upserted for one pair, whose row now
\* holds both (no single upsert carries this map).
C5_Witness ==
    \E i \in 1..Len(table) :
        /\ table[i].skill_json = ("a" :> 40 @@ "b" :> 70)
        /\ seen[<<table[i].username, table[i].repo_name>>] = <<table[i].skill_json>>

\* C6: merge(A, B) has exactly the keys of A and B and for each key k the
\* value max(A.get(k, 0), B.get(k, 0)).
C6_MergeIsUnionMax ==
    Len(merged) = 1 =>
        /\ DOMAIN merged[1] = DOMAIN old_skills \cup DOMAIN new_skills
        /\ \A k \in DOMAIN merged[1] :
              merged[1][k] = Max(Get(old_skills, k), Get(new_skills, k))

\* C6 witness: a merge of two maps that share a skill, the stored score the
\* higher one, and each has a skill the other lacks.
C6_Witness ==
    /\ Len(merged) = 1
    /\ \E k \in DOMAIN old_skills \cap DOMAIN new_skills : old_skills[k] > new_skills[k]
    /\ DOMAIN old_skills \ DOMAIN new_skills # {}
    /\ DOMAIN new_skills \ DOMAIN old_skills # {}

\* C7: merging the same incoming map again changes nothing:
\* merge(merge(A, B), B) = merge(A, B).
C7_MergeIdempotent ==
    Len(merged) = 2 => merged[2] = merged[1]

\* C7 witness: the second merge was made, on maps that share a skill with a
\* positive incoming score, and the first merge changed the stored map.
C7_Witness ==
    /\ Len(merged) = 2
    /\ merged[1] # old_skills
    /\ \E k \in DOMAIN old_skills \cap DOMAIN new_skills : new_skills[k] > 0

\* C8: merge is monotonic and pure: every key of A is a key of merge(A, B) with
\* a score not below A's, and the call changes neither A nor B.
C8_MergeMonotonicPure ==
    [][(Len(merged) = 0 /\ Len(merged') = 1) =>
          /\ old_skills' = old_skills
          /\ new_skills' = new_skills
          /\ \A k \in DOMAIN old_skills :
                k \in DOMAIN merged'[1] /\ merged'[1][k] >= old_skills[k]]_vars

\* C8 witness: a merge has returned a map that differs from a non-empty A.
C8_Witness ==
    /\ Len(merged) = 1
    /\ old_skills # EmptyMap
    /\ merged[1] # old_skills

\* C9: when the encode of the merged skills fails because the vocabulary is
\* full, the upsert does not fail for it, and once it has succeeded the stored
\* skills map is the full merged map, the skills without a slot included; the
\* stored vector is absent (insert) or the one stored before (update).
C9_CapacityKeepsSkills ==
    \A w \in Writers :
        (local[w] # <<>> /\ local[w][1].vector = NoVector) =>
            /\ result[w].kind # "capacity"
            /\ result[w].status = "ok" =>
                  /\ ReturnedRow(w).skill_json = seen[ReqKey(w)][1]
                  /\ ReturnedRow(w).skill_json = local[w][1].merged_skills
                  /\ DOMAIN req[w].skills \subseteq DOMAIN ReturnedRow(w).skill_json
                  /\ ReturnedRow(w).skill_vector =
                        IF existing[w] = <<>> THEN NoVector
                        ELSE existing[w][1].row.skill_vector

\* C9 witness: an upsert succeeded without a vector and stored a skill that has
\* no slot in the full vocabulary.
C9_Witness ==
    \E w \in Writers :
        /\ result[w].status = "ok"
        /\ local[w] # <<>>
        /\ local[w][1].vector = NoVector
        /\ VocabLen(vocabulary) >= MaxDimensions
        /\ \E n \in DOMAIN ReturnedRow(w).skill_json : vocabulary[n] = NoSlot

Stage(p) ==
    CASE p = "init_vocab" -> 1
      [] p = "lookup" -> 2
      [] p = "write" -> 3
      [] p = "commit" -> 4
      [] OTHER -> 5

C12_PermanentFailureEndsUpsert ==
    [][\A w \in Writers :
         /\ (result'[w] # result[w] /\ result'[w].status = "failed"
                /\ result'[w].kind = "permanent")
               => /\ pc[w] \in {"lookup", "write", "commit"}
                  /\ pc'[w] = "idle"
                  /\ attempts'[w] = 1
                  /\ pending'[w] = <<>>
                  /\ table' = table
         /\ (result'[w] # result[w] /\ result'[w].status = "ok")
               => /\ pc[w] = "commit"
                  /\ table' = Apply(table, pending[w])
         /\ (pc[w] \in {"write", "commit"} /\ pc'[w] # pc[w])
               => pc'[w] \in {"commit", "idle"}]_vars

\* C12 witness: the write of an upsert onto a stored profile failed with a
\* failure that is not transient; the upsert ended after its one attempt and
\* the profile is as it was.
C12_Witness ==
    \E w \in Writers :
        /\ pc[w] = "idle"
        /\ result[w].status = "failed"
        /\ result[w].kind = "permanent"
        /\ attempts[w] = 1
        /\ existing[w] # <<>>
        /\ local[w] # <<>>
        /\ table[existing[w][1].id] = existing[w][1].row

\* The request breaks a rule of the data model: an empty username, an empty
\* repo_name or a score outside 0..100.
Invalid(r) ==
    \/ r.username = ""
    \/ r.repo_name = ""
    \/ \E n \in DOMAIN r.skills : r.skills[n] < 0 \/ r.skills[n] > 100

\* C13 as stated: an upsert with an empty username, an empty repo_name or a
\* score outside 0..100 is rejected before any write: it never has a
\* statement flushed, never reports success, and every stored profile has a
\* username, a repo_name and scores within 0..100.
C13_InvalidUpsertWritesNothing ==
    /\ \A w \in Writers :
          ((pc[w] # "idle" \/ result[w].status # "none") /\ Invalid(req[w]))
              => (pending[w] = <<>> /\ result[w].status # "ok")
    /\ \A i \in 1..Len(table) :
          ~Invalid([username |-> table[i].username,
                    repo_name |-> table[i].repo_name,
                    skills |-> table[i].skill_json])

\* The row meets a filter dict as C14 reads it: for every key the row's
\* score, 0 for a skill it lacks, is at least that key's minimum.
MeetsThresholds(row, skill_filters) ==
    \A i \in 1..Len(skill_filters) :
        Get(row.skill_json, skill_filters[i][1]) >= skill_filters[i][2]

\* The rows C14 says a search is about: those within the repo_name
\* restriction that meet every threshold.
Qualifying(skill_filters, repo_name) ==
    {i \in 1..Len(table) :
        /\ repo_name # "" => table[i].repo_name = repo_name
        /\ MeetsThresholds(table[i], skill_filters)}

\* C14 as stated: a search returns qualifying rows only, and all of them
\* unless the limit cuts the result; a row that lacks a filtered skill
\* qualifies when that filter's minimum is 0.
C14_SearchReturnsExactlyQualifying ==
    query.op = "search_by_skills" =>
        LET q == Qualifying(query.skill_filters, query.repo_name)
        IN /\ query.ret \subseteq q
           /\ Cardinality(query.ret) <= query.limit
           /\ Cardinality(query.ret) < query.limit => query.ret = q

\* C15 as stated: decoding the encoding of a one-skill dict {name: s}, s an
\* integer of 0..100 and name one that got a slot, gives a dict that holds
\* name with the score s.
C15_RoundTripSingleSkill ==
    (call.op = "decode" /\ call.skills \in SingleSkillMaps) =>
        \A n \in DOMAIN call.skills :
            /\ n \in DOMAIN call.decoded
            /\ call.decoded[n] = call.skills[n]

\* C16: when the calls made on the empty registry are for pairwise distinct
\* names, each of the first MaxDimensions succeeds and the call for the
\* (MaxDimensions + 1)-th name raises the capacity error, the only one of
\* these MaxDimensions + 1 calls that does.
C16_CapacityErrorOnNextDistinctName ==
    (\A i, j \in 1..Len(log) : i # j => log[i].name # log[j].name) =>
        \A i \in 1..Len(log) :
            /\ i <= MaxDimensions =>
                  (~log[i].raised /\ vocabulary[log[i].name] = log[i].ret
                      /\ log[i].ret \in 0..(MaxDimensions - 1))
            /\ i = MaxDimensions + 1 =>
                  (log[i].raised /\ vocabulary[log[i].name] = NoSlot)

\* C16 witness: MaxDimensions + 1 calls for distinct names were made and the
\* last raised.
C16_Witness ==
    /\ Len(log) = MaxDimensions + 1
    /\ \A i, j \in 1..Len(log) : i # j => log[i].name # log[j].name
    /\ log[MaxDimensions + 1].raised
    /\ \A i \in 1..MaxDimensions : ~log[i].raised

\* C17: a call for a name that an earlier call registered returns the index
\* the earlier call returned, does not raise and leaves the registry as it
\* is, whether or not the registry is full.
C17_EnsureSlotIdempotent ==
    [][\A i \in 1..Len(log) :
          (Len(log') = Len(log) + 1 /\ log'[Len(log')].name = log[i].name
              /\ ~log[i].raised)
            => /\ ~log'[Len(log')].raised
               /\ log'[Len(log')].ret = log[i].ret
               /\ vocabulary' = vocabulary]_vars

\* C17 witness: on a full registry a registered name was asked for a second
\* time and got its index again.
C17_Witness ==
    /\ VocabLen(vocabulary) = MaxDimensions
    /\ \E i, j \in 1..Len(log) :
          /\ i < j
          /\ j = Len(log)
          /\ log[i].name = log[j].name
          /\ ~log[j].raised
          /\ log[j].ret = log[i].ret
          /\ \E k \in 1..(j - 1) : log[k].raised

LexRank(n, U) == Cardinality({m \in U : Rank(m) < Rank(n)})

\* C19: build_vocabulary_from_db on the empty registry gives the name of
\* lexicographic rank i among all names of the input maps the slot i when
\* i < MaxDimensions, and gives the other names no slot.
C19_BulkLoadAssignsByRank ==
    [][(vocabulary = EmptyVocabulary /\ call'.op = "bulkLoad") =>
          LET U == UNION {DOMAIN j : j \in call'.jsons}
          IN \A n \in Names :
                vocabulary'[n] = IF n \in U /\ LexRank(n, U) < MaxDimensions
                                 THEN LexRank(n, U)
                                 ELSE NoSlot]_vars

\* C19 witness: a bulk load of more than MaxDimensions names left the first
\* MaxDimensions of them, in lexicographic order, with their ranks as slots.
C19_Witness ==
    /\ call.op = "bulkLoad"
    /\ LET U == UNION {DOMAIN j : j \in call.jsons}
       IN /\ Cardinality(U) > MaxDimensions
          /\ \A n \in Names :
                vocabulary[n] = IF n \in U /\ LexRank(n, U) < MaxDimensions
                                THEN LexRank(n, U)
                                ELSE NoSlot

\* C20 as stated: the vector a successful skills_to_vector(skills) returned
\* holds, at the slot of every name of skills, that name's score (as
\* score/100), and 0 at every position that is no slot of a name of skills.
C20_EncodePlacesScores ==
    (call.op = "encode" /\ ~call.raised) =>
        /\ \A n \in DOMAIN call.skills :
              /\ vocabulary[n] \in 0..(Len(call.vector) - 1)
              /\ call.vector[vocabulary[n] + 1] = call.skills[n]
        /\ \A p \in 1..Len(call.vector) :
              (\A n \in DOMAIN call.skills : vocabulary[n] # p - 1)
                  => call.vector[p] = 0

\* C21 as stated: whatever the interleaving of concurrent
\* get_or_create_skill_index calls that register different new names, no two
\* names hold the same slot.
C21_ConcurrentSlotsDistinct ==
    \A n, m \in Names :
        (n # m /\ vocabulary[n] # NoSlot /\ vocabulary[m] # NoSlot)
            => vocabulary[n] # vocabulary[m]

\* C22 as stated: whatever the interleaving of concurrent upserts, a score
\* committed for a skill of a stored profile is never followed by a lower
\* stored score for that skill of that profile, nor by the skill's absence.
C22_StoredScoresNeverDecrease ==
    [][\A i \in 1..Len(table) :
          \A n \in DOMAIN table[i].skill_json :
              /\ i <= Len(table')
              /\ n \in DOMAIN table'[i].skill_json
              /\ table'[i].skill_json[n] >= table[i].skill_json[n]]_vars

\* C23: get_skill_vector(username, repo_name) returns a stored profile with
\* exactly that username and repo_name when there is one and None when there
\* is none; without repo_name it returns a profile of that username when
\* there is one and None otherwise; a returned profile never has another
\* username, nor a repo_name other than the one given.
C23_GetProfileReturnsTheKey ==
    query.op = "get_skill_vector" =>
        LET wanted == {i \in 1..Len(table) :
                          /\ table[i].username = query.username
                          /\ query.repo_name # "" => table[i].repo_name = query.repo_name}
        IN /\ wanted = {} => query.ret = {}
           /\ wanted # {} => \E i \in wanted : query.ret = {i}

\* C23 witness: the username has profiles for two repositories and the one
\* asked for was returned.
C23_Witness ==
    /\ query.op = "get_skill_vector"
    /\ query.repo_name # ""
    /\ \E i, j \in 1..Len(table) :
          /\ query.ret = {i}
          /\ table[i].repo_name = query.repo_name
          /\ table[j].username = query.username
          /\ table[j].repo_name # query.repo_name

\* C24: search_by_vector_similarity returns no profile without a stored
\* vector, and at most limit profiles.
C24_SimilarityNeedsVectorWithinLimit ==
    query.op = "search_by_vector_similarity" =>
        /\ \A i \in query.ret : table[i].skill_vector # NoVector
        /\ Len(query.rows) <= query.limit
        /\ Cardinality(query.ret) = Len(query.rows)

\* C24 witness: a profile was stored without a vector, and a search whose
\* limit had room for it returned only the profile that has one.
C24_Witness ==
    /\ query.op = "search_by_vector_similarity"
    /\ Len(query.rows) < query.limit
    /\ query.ret # {}
    /\ \E i \in 1..Len(table) : table[i].skill_vector = NoVector

\* The cosine similarity of q and v is a number and at least t[1] / t[2].
SimilarityAtLeast(q, v, t) ==
    /\ ~DistanceIsNaN(q, v)
    /\ t[2] * t[2] * Dot(q, v) * Dot(q, v) >= t[1] * t[1] * Norm2(q) * Norm2(v)

\* C25 as stated: every profile search_by_vector_similarity returned has a
\* cosine similarity to query_vector of at least similarity_threshold.
C25_SimilarityAtLeastThreshold ==
    query.op = "search_by_vector_similarity" =>
        \A i \in query.ret :
            SimilarityAtLeast(query.query_vector, table[i].skill_vector,
                              query.similarity_threshold)

\* C26: an upsert onto an existing profile changes only that profile's
\* skills, vector and updated_at: every stored profile keeps its id (its
\* place in the table), username, repo_name and created_at, and a step that
\* changes a stored profile changes no other and adds none.
C26_UpdateKeepsIdentityAndOthers ==
    [][/\ Len(table') >= Len(table)
       /\ \A i \in 1..Len(table) :
             /\ table'[i].username = table[i].username
             /\ table'[i].repo_name = table[i].repo_name
             /\ table'[i].created_at = table[i].created_at
       /\ \A i, j \in 1..Len(table) :
             (table'[i] # table[i] /\ table'[j] # table[j]) => i = j
       /\ (\E i \in 1..Len(table) : table'[i] # table[i]) =>
             Len(table') = Len(table)]_vars

\* C26 witness: two profiles are stored and the first one has been updated
\* with new skills after the second one was created.
C26_Witness ==
    /\ Len(table) = 2
    /\ table[1].updated_at > table[2].created_at
    /\ table[1].updated_at > table[1].created_at
    /\ pc[1] = "idle"

\* C27 as stated: with default arguments, every vector that the upsert
\* encodes, writes to the session or has stored has exactly as many positions
\* as the skill_vector column declares (200).
C27_WrittenVectorHasColumnDimensions ==
    /\ \A w \in Writers :
          /\ local[w] # <<>> /\ local[w][1].vector # NoVector =>
                Len(local[w][1].vector) = VectorColumnDimensions
          /\ pending[w] # <<>> /\ pending[w][1].kind = "insert"
                /\ pending[w][1].row.skill_vector # NoVector =>
                Len(pending[w][1].row.skill_vector) = VectorColumnDimensions
    /\ \A i \in 1..Len(table) :
          table[i].skill_vector # NoVector =>
              Len(table[i].skill_vector) = VectorColumnDimensions

\* C28 as stated: a successful encode of a skills map returns the vector that
\* an earlier successful encode of the same map, with the same
\* max_dimensions, returned, whatever registry calls were made in between.
C28_EncodeStableAcrossRegistryCalls ==
    (/\ call.op = "encode"
     /\ ~call.raised
     /\ encoded # <<>>
     /\ call.skills = encoded[1].skills) => call.vector = encoded[1].vector

\* C29 as stated: after a successful upsert the stored vector of the profile
\* it returned, when present, is the encoding of the profile's stored skills:
\* every stored skill that has a registry slot has its score at that slot,
\* also when the encode of an update failed on a full vocabulary.
C29_StoredVectorEncodesStoredSkills ==
    \A w \in Writers :
        (/\ pc[w] = "idle"
         /\ result[w].status = "ok"
         /\ result[w].id \in 1..Len(table)
         /\ table[result[w].id].skill_vector # NoVector) =>
            LET row == table[result[w].id]
            IN \A k \in DOMAIN row.skill_json :
                  vocabulary[k] # NoSlot =>
                      row.skill_vector[vocabulary[k] + 1] = row.skill_json[k]

\* C30: when save_or_update_skill_vector raises, at the lookup, the flush, the
\* refresh or the commit, the session is rolled back and nothing of the call
\* is persisted: the step that raises leaves the table as it is and drops the
\* flushed statement, and the table changes only in the step of a commit that
\* succeeds.
C30_RaisePersistsNothing ==
    [][/\ \A w \in Writers :
             (pc[w] # "idle" /\ pc'[w] = "idle" /\ result'[w].status = "failed")
                => /\ table' = table
                   /\ pending'[w] = <<>>
       /\ table' # table =>
             \E w \in Writers : /\ pc[w] = "commit"
                                /\ pc'[w] = "idle"
                                /\ result'[w].status = "ok"]_vars

\* C30 witness: a call that had merged and encoded the skills of a new
\* profile raised, and the table, which holds another profile, has no row
\* for its key.
C30_Witness ==
    \E w \in Writers :
        /\ pc[w] = "idle"
        /\ result[w].status = "failed"
        /\ local[w] # <<>>
        /\ existing[w] = <<>>
        /\ Len(table) >= 1
        /\ Matches(req[w].username, req[w].repo_name) = {}

====
